---- MODULE Spec2Model ----
(***************************************************************************)
(* State-machine model of the WebGLWater component: the ping-ponged        *)
(* heightfield simulator (waterSimulation), the pointer handlers, the      *)
(* per-frame callback animate and the effect cleanup.                      *)
(*                                                                         *)
(* Five specifications share the state.  Spec: pointer events, frames,     *)
(* cleanup and context loss on a mounted component with fixed props.       *)
(* ShellSpec: the control panel's commits, camera orbits and frames.       *)
(* FieldSpec: the simulator's four operations called in any order, with    *)
(* the pixels of both render targets.  DecaySpec: one drop into the        *)
(* cleared targets followed by propagation steps only.  CausticsSpec:      *)
(* sphere stamps, normal passes and a light commit followed by one run of  *)
(* the caustics generator.                                                 *)
(*                                                                         *)
(* Units.  World coordinates and UV coordinates are integers in            *)
(* thousandths (0.25 is 250); heights and drop strengths are integers in   *)
(* units of 1e-5 (0.02 is 2000).  JavaScript runs every handler to         *)
(* completion, so a pointer handler or the cleanup runs only while no      *)
(* frame callback is in progress (pc = "idle").                            *)
(***************************************************************************)
EXTENDS Integers, Sequences, FiniteSets, TLC

VARIABLES ws, spherePos, oldSpherePos, isDraggingSphere, controlsEnabled,
          lastWaterInteractionPoint, raf, pc, frame, sceneObjects, scene, draw,
          listening, disposed, contextLost, frameLog, ev, frames, events,
          dragSamples, shell, env, cube, view, reflector, texels, peaks,
          caustics

vars == <<ws, spherePos, oldSpherePos, isDraggingSphere, controlsEnabled,
          lastWaterInteractionPoint, raf, pc, frame, sceneObjects, scene, draw,
          listening, disposed, contextLost, frameLog, ev, frames, events,
          dragSamples, shell, env, cube, view, reflector, texels, peaks,
          caustics>>

\* the state owned by the shell and the prop effects, and by the cameras
shellVars == <<shell, env, cube>>
viewVars == <<view, reflector>>

\* ------------------------------------------------------------------ bounds
MaxFrames == 2
MaxEvents == 3
GridN == 3
FrameMillis == 700
MaxCommits == 3
MaxOps == 4
MantBits == 8
Window == 5
MaxStamps == 3

\* ------------------------------------------------------- program constants
poolSize == 2000
poolHeight == 1000
sphereRadius == 250
StampEpsilon == 1
DragYMax == 500
ClickRadius == 30
ClickStrength == 2000
TrailRadius == 20
TrailSegment == 15
WindRadius1 == 50
WindRadius2 == 80
windStrength == 50
InitSpherePos == <<-300, -100, 300>>
animId == 1
SIZE == 128

Null == <<>>
Images == {0, 1}
Pow2Mant == 2 ^ MantBits

\* ------------------------------------------------------ arithmetic helpers
Min(a, b) == IF a < b THEN a ELSE b
Max(a, b) == IF a > b THEN a ELSE b

\* floor of the square root (Vector2.distanceTo / Vector3.distanceTo / length)
RECURSIVE SqrtBetween(_, _, _)
SqrtBetween(n, lo, hi) ==
  IF lo >= hi THEN lo
  ELSE LET mid == (lo + hi + 1) \div 2
       IN IF mid * mid <= n THEN SqrtBetween(n, mid, hi)
          ELSE SqrtBetween(n, lo, mid - 1)
ISqrt(n) == SqrtBetween(n, 0, 46340)

\* sin of an angle given in milliradians, result in thousandths
\* (Bhaskara's rational approximation on each half period)
SinHalf(a) == (16 * a * (3142 - a)) \div ((49361 - (4 * a * (3142 - a)) \div 1000))
SinMilli(a) ==
  LET r == a % 6284
  IN IF r <= 3142 THEN SinHalf(r) ELSE -SinHalf(r - 3142)
CosMilli(a) == SinMilli(a + 1571)

\* Math.sin(time * k + c) * 0.5 + 0.5, time in milliseconds, k in tenths
WindSin(time, k, c) == Max(0, Min(1000, SinMilli((time * k) \div 10 + c + 62840) \div 2 + 500))
WindCos(time, k, c) == Max(0, Min(1000, CosMilli((time * k) \div 10 + c + 62840) \div 2 + 500))

\* --------------------------------------------------------- the simulator
\* A heightfield image is represented by the sequence of passes that
\* produced it from the zero-initialised render target: rendering pass op
\* from image src into image dst makes dst hold Append(content of src, op).
Op(name, a, b, radius, strength) ==
  [op |-> name, a |-> a, b |-> b, radius |-> radius, strength |-> strength]

NoPass == [mat |-> "none", src |-> -1, dst |-> -1]

\* targets.swap
swap_alias(w) == [w EXCEPT !.read = w.write, !.write = w.write]
swap(w) == [w EXCEPT !.read = w.write, !.write = w.read]

\* mesh.material = mat; mat.uniforms.u_texture.value = src texture;
\* renderer.setRenderTarget(dst); renderer.render(scene, camera);
\* renderer.setRenderTarget(null)
RenderPass(w, op, src, dst) ==
  [w EXCEPT !.img[dst] = Append(w.img[src], op),
            !.pass = [mat |-> op.op, src |-> src, dst |-> dst],
            !.calls = w.calls + 1]

addDrop(w, x, y, radius, strength) ==
  swap(RenderPass(w, Op("addDrop", <<x, y>>, Null, radius, strength),
                  w.read, w.write))

moveSphere(w, oldCenter, newCenter, radius) ==
  swap(RenderPass(w, Op("moveSphere", oldCenter, newCenter, radius, 0),
                  w.read, w.write))

step(w) ==
  swap(RenderPass(w, Op("step", Null, Null, 0, 0), w.read, w.write))

updateNormals_noswap(w) ==
  RenderPass(w, Op("updateNormals", Null, Null, 0, 0), w.read, w.write)
updateNormals(w) ==
  swap(RenderPass(w, Op("updateNormals", Null, Null, 0, 0), w.read, w.write))

getTexture(w) == w.read

\* ------------------------------------------------- sphereShaderFs (sample)
\* exp(-x) for x >= 0 in thousandths, result in thousandths: (1 - x/8)^8
Sq(m) == (m * m) \div 1000
ExpNeg(x) ==
  IF x >= 8000 THEN 0
  ELSE LET b == 1000 - x \div 8 IN Sq(Sq(Sq(b)))

\* centre of grid cell i (0-based) in thousandths of UV
CellUv(i) == ((2 * i + 1) * 1000) \div (2 * GridN)
Cells == {<<CellUv(i), CellUv(j)>> : i \in 0..(GridN - 1), j \in 0..(GridN - 1)}

\* volumeInSphere(center) at the fragment v_uv = uv, in units of 1e-5
volumeInSphere(center, radius, uv) ==
  LET wx == uv[1] * 2 - 1000
      wz == uv[2] * 2 - 1000
      d2 == (wx - center[1]) * (wx - center[1]) + (wz - center[3]) * (wz - center[3])
      q  == (9 * d2) \div ((4 * radius * radius) \div 1000)
      dy == IF q >= 2000 THEN 0 ELSE ExpNeg((Sq(q) * q) \div 1000)
      ymin == Min(0, center[2] - dy)
      ymax == Min(Max(0, center[2] + dy), ymin + 2 * dy)
  IN (ymax - ymin) * 10

\* what sphereShaderFs main adds to info.r for one pass
StampDelta(op, uv) ==
  volumeInSphere(op.a, op.radius, uv) - volumeInSphere(op.b, op.radius, uv)

\* ------------------------------------------------------- pointer handlers
\* inputs: the results of the raycaster for the event's pointer position
PlanePoints == {<<40, 0>>, <<2400, 0>>}
DragPoints == {<<-300, -100, 301>>, <<900, 700, -900>>, <<-900, -2000, 900>>}

\* raycaster.intersectObject(sphere) and, when the handler goes on to ask
\* for it, raycaster.ray.intersectPlane(waterPlane, point)
WaterRays ==
  {[hitSphere |-> TRUE, hit |-> FALSE, point |-> Null],
   [hitSphere |-> FALSE, hit |-> FALSE, point |-> Null]}
  \cup {[hitSphere |-> FALSE, hit |-> TRUE, point |-> p] : p \in PlanePoints}

\* raycaster.ray.intersectPlane(dragPlane, point)
DragRays ==
  {[hitSphere |-> FALSE, hit |-> FALSE, point |-> Null]}
  \cup {[hitSphere |-> FALSE, hit |-> TRUE, point |-> p] : p \in DragPoints}

\* the materials a render finds inside the view frustum: the orbiting
\* camera and its mirror image both look at the pool and the sphere
Views == {{"pool", "sphere"}}

Event(type, ray, buttons) ==
  [type |-> type, hitSphere |-> ray.hitSphere, hit |-> ray.hit,
   point |-> ray.point, buttons |-> buttons]

NoEvent == [type |-> "none", hitSphere |-> FALSE, hit |-> FALSE,
            point |-> Null, buttons |-> 0]

\* Ray.intersectPlane(plane, point): on a miss it returns null and leaves
\* the freshly constructed point at the origin
IntersectPlane(hit, p, origin) == IF hit THEN p ELSE origin

\* currentUv = (point.x / poolSize + 0.5, 0.5 - point.z / poolSize)
WaterUv(point) == <<(point[1] * 1000) \div poolSize + 500,
                    500 - (point[2] * 1000) \div poolSize>>

InUnitSquare(uv) == uv[1] >= 0 /\ uv[1] <= 1000 /\ uv[2] >= 0 /\ uv[2] <= 1000

Dist2(p, q) ==
  LET D(i) == (p[i] - q[i]) * (p[i] - q[i])
  IN IF Len(p) = 2 THEN D(1) + D(2) ELSE D(1) + D(2) + D(3)

\* Math.max(1, Math.ceil(distance / 0.015))
Segments(d2) ==
  CHOOSE n \in 1..200 :
    /\ (TrailSegment * n) * (TrailSegment * n) >= d2
    /\ (n = 1 \/ (TrailSegment * (n - 1)) * (TrailSegment * (n - 1)) < d2)

\* Math.min(maxStrength, baseStrength + distance * strengthMultiplier)
TrailStrength(isPointerDown, d2) ==
  IF isPointerDown THEN Min(5000, 2000 + 40 * ISqrt(d2))
  ELSE Min(3000, 1000 + 30 * ISqrt(d2))

\* lastUv.clone().lerp(currentUv, i / segments)
Lerp(lastUv, currentUv, i, segments) ==
  <<lastUv[1] + ((currentUv[1] - lastUv[1]) * i) \div segments,
    lastUv[2] + ((currentUv[2] - lastUv[2]) * i) \div segments>>

\* the for loop of the trail
RECURSIVE Trail(_, _, _, _, _, _)
Trail(w, lastUv, currentUv, segments, i, strength) ==
  IF i >= segments THEN w
  ELSE LET uv == Lerp(lastUv, currentUv, i, segments)
           w2 == IF InUnitSquare(uv)
                 THEN addDrop(w, uv[1], uv[2], TrailRadius, strength)
                 ELSE w
       IN Trail(w2, lastUv, currentUv, segments, i + 1, strength)

\* the clamp of the dragged sphere
ClampSphere_noY(point) ==
  LET limit == poolSize \div 2 - sphereRadius
  IN <<Max(-limit, Min(limit, point[1])), point[2],
       Max(-limit, Min(limit, point[3]))>>
ClampSphere(point) ==
  LET limit == poolSize \div 2 - sphereRadius
  IN <<Max(-limit, Min(limit, point[1])),
       Max(-poolHeight + sphereRadius, Min(DragYMax, point[2])),
       Max(-limit, Min(limit, point[3]))>>

HandlerReady == pc = "idle" /\ listening /\ events < MaxEvents

onPointerDownImpl ==
  /\ HandlerReady
  /\ \E ray \in WaterRays :
       /\ ev' = Event("down", ray, 1)
       /\ IF ray.hitSphere
          THEN /\ isDraggingSphere' = TRUE
               /\ controlsEnabled' = FALSE
               /\ ws' = ws
          ELSE LET point == IntersectPlane(ray.hit, ray.point, <<0, 0>>)
                   currentUv == WaterUv(point)
               IN /\ ws' = IF InUnitSquare(currentUv)
                           THEN addDrop(ws, currentUv[1], currentUv[2],
                                        ClickRadius, ClickStrength)
                           ELSE ws
                  /\ UNCHANGED <<isDraggingSphere, controlsEnabled>>
  /\ events' = events + 1
  /\ UNCHANGED <<spherePos, oldSpherePos, lastWaterInteractionPoint, raf, pc,
                 frame, sceneObjects, scene, draw, listening, disposed,
                 contextLost, frameLog, frames, dragSamples>>
  /\ UNCHANGED <<shellVars, viewVars, texels, peaks, caustics>>

\* the isDraggingSphere branch of onPointerMoveImpl
DragSphere ==
  /\ HandlerReady
  /\ isDraggingSphere
  /\ \E ray \in DragRays :
       /\ ev' = Event("drag", ray, 1)
       /\ spherePos' = ClampSphere(IntersectPlane(ray.hit, ray.point,
                                                  <<0, 0, 0>>))
  /\ dragSamples' = dragSamples + 1
  /\ events' = events + 1
  /\ UNCHANGED <<ws, oldSpherePos, isDraggingSphere, controlsEnabled,
                 lastWaterInteractionPoint, raf, pc, frame, sceneObjects,
                 scene, draw, listening, disposed, contextLost, frameLog,
                 frames>>
  /\ UNCHANGED <<shellVars, viewVars, texels, peaks, caustics>>

\* the rest of onPointerMoveImpl
HoverWater ==
  /\ HandlerReady
  /\ ~isDraggingSphere
  /\ \E ray \in WaterRays, buttons \in {0, 1} :
       /\ ev' = Event("move", ray, buttons)
       /\ IF ray.hitSphere
          THEN /\ lastWaterInteractionPoint' = Null
               /\ ws' = ws
          ELSE LET point == IntersectPlane(ray.hit, ray.point, <<0, 0>>)
                   currentUv == WaterUv(point)
               IN IF ~InUnitSquare(currentUv)
                  THEN /\ lastWaterInteractionPoint' = Null
                       /\ ws' = ws
                  ELSE /\ lastWaterInteractionPoint' = currentUv
                       /\ ws' = IF lastWaterInteractionPoint # Null
                                THEN LET lastUv == lastWaterInteractionPoint
                                         d2 == Dist2(currentUv, lastUv)
                                     IN Trail(ws, lastUv, currentUv,
                                              Segments(d2), 0,
                                              TrailStrength(buttons = 1, d2))
                                ELSE ws
  /\ events' = events + 1
  /\ UNCHANGED <<spherePos, oldSpherePos, isDraggingSphere, controlsEnabled,
                 raf, pc, frame, sceneObjects, scene, draw, listening,
                 disposed, contextLost, frameLog, frames, dragSamples>>
  /\ UNCHANGED <<shellVars, viewVars, texels, peaks, caustics>>

onPointerMoveImpl == DragSphere \/ HoverWater

onPointerUpImpl_keepsTrail ==
  /\ HandlerReady
  /\ isDraggingSphere' = FALSE
  /\ controlsEnabled' = TRUE
  /\ ev' = [NoEvent EXCEPT !.type = "up"]
  /\ events' = events + 1
  /\ UNCHANGED <<ws, spherePos, oldSpherePos, lastWaterInteractionPoint, raf,
                 pc, frame, sceneObjects, scene, draw, listening, disposed,
                 contextLost, frameLog, frames, dragSamples>>
  /\ UNCHANGED <<shellVars, viewVars, texels, peaks, caustics>>

onPointerUpImpl ==
  /\ HandlerReady
  /\ isDraggingSphere' = FALSE
  /\ controlsEnabled' = TRUE
  /\ lastWaterInteractionPoint' = Null
  /\ ev' = [NoEvent EXCEPT !.type = "up"]
  /\ events' = events + 1
  /\ UNCHANGED <<ws, spherePos, oldSpherePos, raf, pc, frame, sceneObjects,
                 scene, draw, listening, disposed, contextLost, frameLog,
                 frames, dragSamples>>
  /\ UNCHANGED <<shellVars, viewVars, texels, peaks, caustics>>

onPointerLeaveImpl ==
  /\ HandlerReady
  /\ lastWaterInteractionPoint' = Null
  /\ ev' = [NoEvent EXCEPT !.type = "leave"]
  /\ events' = events + 1
  /\ UNCHANGED <<ws, spherePos, oldSpherePos, isDraggingSphere,
                 controlsEnabled, raf, pc, frame, sceneObjects, scene, draw,
                 listening, disposed, contextLost, frameLog, frames,
                 dragSamples>>
  /\ UNCHANGED <<shellVars, viewVars, texels, peaks, caustics>>

\* ------------------------------------------- the simulator's shaders
\* The render targets hold 32-bit floats (type: THREE.FloatType).  A texel
\* value is an integer number of 1e-5 units kept to MantBits significant
\* bits: Fl rounds the exact result of one arithmetic operation to the
\* nearest representable value, ties to even.
RECURSIVE UlpFrom(_, _)
UlpFrom(n, q) == IF n < q * Pow2Mant THEN q ELSE UlpFrom(n, 2 * q)
Ulp(x) == UlpFrom(IF x < 0 THEN -x ELSE x, 1)

Fl(x) ==
  LET n == IF x < 0 THEN -x ELSE x
      q == Ulp(x)
      m == n \div q
      rest == n % q
      up == 2 * rest > q \/ (2 * rest = q /\ m % 2 = 1)
      rounded == (IF up THEN m + 1 ELSE m) * q
  IN IF x < 0 THEN -rounded ELSE rounded

\* division rounding toward zero
Quot(a, b) == IF a < 0 THEN -((-a) \div b) ELSE a \div b

GridCells == (0..(GridN - 1)) \X (0..(GridN - 1))
Uv(c) == <<CellUv(c[1]), CellUv(c[2])>>

\* a cleared render target
ZeroTexel == [r |-> 0, g |-> 0, b |-> 0, a |-> 0]
ZeroField == [c \in GridCells |-> ZeroTexel]

\* texture2D(u_texture, v_uv + offset) one texel away: the targets use the
\* default ClampToEdgeWrapping
ClampIndex(i) == Max(0, Min(GridN - 1, i))
Texel(f, c, di, dj) == f[<<ClampIndex(c[1] + di), ClampIndex(c[2] + dj)>>]

\* cos(PI * t) for t in [0, 1], t and the result in thousandths
CosPi(t) ==
  IF t <= 500 THEN (1000 * (1000000 - 4 * t * t)) \div (1000000 + t * t)
  ELSE -((1000 * (1000000 - 4 * (1000 - t) * (1000 - t)))
           \div (1000000 + (1000 - t) * (1000 - t)))

\* dropShaderFs
DropFalloff_unclamped(center, radius, uv) ==
  1000 - (ISqrt(Dist2(center, uv)) * 1000) \div radius
DropFalloff(center, radius, uv) ==
  Max(0, 1000 - (ISqrt(Dist2(center, uv)) * 1000) \div radius)

dropShaderFs_noStrength(f, c, op) ==
  LET info == f[c]
      drop0 == DropFalloff(op.a, op.radius, Uv(c))
      drop == (1000 - CosPi(drop0)) \div 2
  IN [info EXCEPT !.r = Fl(@ + Fl(drop * 100))]
dropShaderFs(f, c, op) ==
  LET info == f[c]
      drop0 == DropFalloff(op.a, op.radius, Uv(c))
      drop == (1000 - CosPi(drop0)) \div 2
  IN [info EXCEPT !.r = Fl(@ + Fl(Quot(drop * op.strength, 1000)))]

\* updateShaderFs
updateShaderFs_inverted(f, c) ==
  LET info == f[c]
      sum == Texel(f, c, -1, 0).r + Texel(f, c, 1, 0).r
             + Texel(f, c, 0, -1).r + Texel(f, c, 0, 1).r
      g1 == Fl(info.g + Fl(Quot(4 * info.r - sum, 2)))
      g2 == Fl(Quot(g1 * 995, 1000))
  IN [info EXCEPT !.g = g2, !.r = Fl(@ + g2)]
updateShaderFs(f, c) ==
  LET info == f[c]
      sum == Texel(f, c, -1, 0).r + Texel(f, c, 1, 0).r
             + Texel(f, c, 0, -1).r + Texel(f, c, 0, 1).r
      g1 == Fl(info.g + Fl(Quot(sum - 4 * info.r, 2)))
      g2 == Fl(Quot(g1 * 995, 1000))
  IN [info EXCEPT !.g = g2, !.r = Fl(@ + g2)]

\* normalShaderFs: cross(dy, dx) = u_delta * (-hx, u_delta, -hz) with hx, hz
\* the forward differences; lengths here are in units of 1e-4
normalShaderFs_xy(f, c) ==
  LET info == f[c]
      delta == 10000 \div GridN
      hx == Quot(Texel(f, c, 1, 0).r - info.r, 10)
      hz == Quot(Texel(f, c, 0, 1).r - info.r, 10)
      len == ISqrt(hx * hx + delta * delta + hz * hz)
  IN [info EXCEPT !.b = Fl(Quot(-hx * 1000, len)),
                  !.a = Fl(Quot(delta * 1000, len))]
normalShaderFs(f, c) ==
  LET info == f[c]
      delta == 10000 \div GridN
      hx == Quot(Texel(f, c, 1, 0).r - info.r, 10)
      hz == Quot(Texel(f, c, 0, 1).r - info.r, 10)
      len == ISqrt(hx * hx + delta * delta + hz * hz)
  IN [info EXCEPT !.b = Fl(Quot(-hx * 1000, len)),
                  !.a = Fl(Quot(-hz * 1000, len))]

\* sphereShaderFs main
sphereShaderFs_addsBoth(f, c, op) ==
  LET info == f[c]
  IN [info EXCEPT !.r = Fl(Fl(@ + Fl(volumeInSphere(op.a, op.radius, Uv(c))))
                           + Fl(volumeInSphere(op.b, op.radius, Uv(c))))]
sphereShaderFs(f, c, op) ==
  LET info == f[c]
  IN [info EXCEPT !.r = Fl(Fl(@ + Fl(volumeInSphere(op.a, op.radius, Uv(c))))
                           - Fl(volumeInSphere(op.b, op.radius, Uv(c))))]

\* renderer.render(scene, camera) of the full-screen quad with material
\* op.op: every texel of the target is the shader's output for its cell
Shade(f, op) ==
  [c \in GridCells |->
     CASE op.op = "addDrop" -> dropShaderFs(f, c, op)
       [] op.op = "moveSphere" -> sphereShaderFs(f, c, op)
       [] op.op = "step" -> updateShaderFs(f, c)
       [] op.op = "updateNormals" -> normalShaderFs(f, c)]

\* the texels of the image produced by the passes h from a cleared target
RECURSIVE Texels(_)
Texels(h) ==
  IF h = <<>> THEN ZeroField
  ELSE Shade(Texels(SubSeq(h, 1, Len(h) - 1)), h[Len(h)])

\* --------------------------------------- direct calls of the simulator
DropCenters == {<<500, 500>>}
DropRadii == {400}
DropStrengths == {0, 2000, -2000}
SphereCenters == {<<0, 0, 0>>, <<750, 500, 750>>}
SphereRadii == {sphereRadius}

\* the largest magnitude of the height channel over the grid
Peak(f) ==
  LET mags == {IF f[c].r < 0 THEN -f[c].r ELSE f[c].r : c \in GridCells}
  IN CHOOSE m \in mags : \A k \in mags : k <= m

\* the pixels after the pass that led to w2: the target w2.pass.dst holds
\* the shader's output for the content of the source w2.pass.src
Rendered(t, w2) ==
  LET passes == w2.img[w2.pass.dst]
  IN [t EXCEPT ![w2.pass.dst] = Shade(t[w2.pass.src], passes[Len(passes)])]

CallAddDrop ==
  /\ ws.calls < MaxOps
  /\ \E center \in DropCenters, radius \in DropRadii,
        strength \in DropStrengths :
       ws' = addDrop(ws, center[1], center[2], radius, strength)
  /\ texels' = Rendered(texels, ws')
  /\ peaks' = Append(peaks, Peak(texels'[ws'.read]))
  /\ UNCHANGED <<spherePos, oldSpherePos, isDraggingSphere, controlsEnabled,
                 lastWaterInteractionPoint, raf, pc, frame, sceneObjects,
                 scene, draw, listening, disposed, contextLost, frameLog, ev,
                 frames, events, dragSamples, shellVars, viewVars,
                 caustics>>

CallMoveSphere ==
  /\ ws.calls < MaxOps
  /\ \E oldCenter \in SphereCenters, radius \in SphereRadii :
       \E newCenter \in SphereCenters \ {oldCenter} :
         ws' = moveSphere(ws, oldCenter, newCenter, radius)
  /\ texels' = Rendered(texels, ws')
  /\ peaks' = Append(peaks, Peak(texels'[ws'.read]))
  /\ UNCHANGED <<spherePos, oldSpherePos, isDraggingSphere, controlsEnabled,
                 lastWaterInteractionPoint, raf, pc, frame, sceneObjects,
                 scene, draw, listening, disposed, contextLost, frameLog, ev,
                 frames, events, dragSamples, shellVars, viewVars,
                 caustics>>

CallStep ==
  /\ ws.calls < MaxOps
  /\ ws' = step(ws)
  /\ texels' = Rendered(texels, ws')
  /\ peaks' = Append(peaks, Peak(texels'[ws'.read]))
  /\ UNCHANGED <<spherePos, oldSpherePos, isDraggingSphere, controlsEnabled,
                 lastWaterInteractionPoint, raf, pc, frame, sceneObjects,
                 scene, draw, listening, disposed, contextLost, frameLog, ev,
                 frames, events, dragSamples, shellVars, viewVars,
                 caustics>>

CallUpdateNormals ==
  /\ ws.calls < MaxOps
  /\ ws' = updateNormals(ws)
  /\ texels' = Rendered(texels, ws')
  /\ peaks' = Append(peaks, Peak(texels'[ws'.read]))
  /\ UNCHANGED <<spherePos, oldSpherePos, isDraggingSphere, controlsEnabled,
                 lastWaterInteractionPoint, raf, pc, frame, sceneObjects,
                 scene, draw, listening, disposed, contextLost, frameLog, ev,
                 frames, events, dragSamples, shellVars, viewVars,
                 caustics>>

\* ------------------------------------------ one disturbance left to decay
\* A disturbance of radius 0.03 spans 0.03 * SIZE texels of the target; the
\* GridN x GridN target gets a drop spanning as many texels.
InjectCenters == {<<500, 500>>, <<250, 750>>}
InjectRadius == (30 * SIZE) \div GridN
InjectStrengths == {2000, -2000}
MaxSteps == 10 * Window

Inject ==
  /\ ws.calls = 0
  /\ \E center \in InjectCenters, strength \in InjectStrengths :
       ws' = addDrop(ws, center[1], center[2], InjectRadius, strength)
  /\ texels' = Rendered(texels, ws')
  /\ peaks' = Append(peaks, Peak(texels'[ws'.read]))
  /\ UNCHANGED <<spherePos, oldSpherePos, isDraggingSphere, controlsEnabled,
                 lastWaterInteractionPoint, raf, pc, frame, sceneObjects,
                 scene, draw, listening, disposed, contextLost, frameLog, ev,
                 frames, events, dragSamples, shellVars, viewVars,
                 caustics>>

Propagate ==
  /\ ws.calls >= 1
  /\ ws.calls <= MaxSteps
  /\ ws' = step(ws)
  /\ texels' = Rendered(texels, ws')
  /\ peaks' = Append(peaks, Peak(texels'[ws'.read]))
  /\ UNCHANGED <<spherePos, oldSpherePos, isDraggingSphere, controlsEnabled,
                 lastWaterInteractionPoint, raf, pc, frame, sceneObjects,
                 scene, draw, listening, disposed, contextLost, frameLog, ev,
                 frames, events, dragSamples, shellVars, viewVars,
                 caustics>>

\* ----------------------------------------------- the shell and prop effects
\* MetaPrototype state: lengths of lightPosition and the intensities are in
\* tenths (the sliders' step); directions are in thousandths
InitLightPosition == <<20, 30, -20>>
InitLightIntensity == 20
InitSpecularIntensity == 20
LightValues == {0, 100, -24}
SkyPresets == {"default", "night"}
Intensities == {20, 50}

Dot(p, q) == p[1] * q[1] + p[2] * q[2] + p[3] * q[3]
Add(p, q) == <<p[1] + q[1], p[2] + q[2], p[3] + q[3]>>
Sub(p, q) == <<p[1] - q[1], p[2] - q[2], p[3] - q[3]>>
Neg(p) == <<-p[1], -p[2], -p[3]>>

\* Vector3.normalize: divideScalar(this.length() || 1)
Normalize(v) ==
  LET len == ISqrt(Dot(v, v) * 10000)
  IN IF len = 0 THEN v
     ELSE <<(v[1] * 100000) \div len, (v[2] * 100000) \div len,
            (v[3] * 100000) \div len>>

\* cubeCamera.update(renderer, skyScene): the six faces are rendered from the
\* sky material's uniforms as they are at the call
cubeCamera_update(c, e) ==
  [sun |-> e.skySun, preset |-> e.preset, updates |-> c.updates + 1]

\* useEffect [lightPosition]: it makes no cubeCamera.update call
SunEffect(e, lightPosition) ==
  LET sunPosition == Normalize(lightPosition)
  IN [e EXCEPT !.sunPosition = sunPosition, !.skySun = sunPosition,
               !.lightDir = sunPosition, !.sunLight = sunPosition]

\* useEffect [skyPreset, lightIntensity]
SkyEffect(e, skyPreset, lightIntensity) ==
  [e EXCEPT !.preset = skyPreset, !.intensity = lightIntensity]

ShellReady == pc = "idle" /\ ~disposed /\ shell.commits < MaxCommits

handleLightPositionChange ==
  /\ ShellReady
  /\ \E axis \in 1..3, value \in LightValues :
       /\ shell' = [shell EXCEPT !.lightPosition[axis] = value,
                                 !.commits = @ + 1]
       /\ env' = SunEffect(env, shell'.lightPosition)
  /\ UNCHANGED <<ws, spherePos, oldSpherePos, isDraggingSphere,
                 controlsEnabled, lastWaterInteractionPoint, raf, pc, frame,
                 sceneObjects, scene, draw, listening, disposed, contextLost,
                 frameLog, ev, frames, events, dragSamples, cube, viewVars,
                 texels, peaks, caustics>>

handleSkyPresetChange ==
  /\ ShellReady
  /\ \E newPreset \in SkyPresets \ {shell.skyPreset} :
       /\ shell' = [shell EXCEPT !.skyPreset = newPreset, !.commits = @ + 1]
       /\ env' = SkyEffect(env, newPreset, shell.lightIntensity)
       /\ cube' = cubeCamera_update(cube, env')
  /\ UNCHANGED <<ws, spherePos, oldSpherePos, isDraggingSphere,
                 controlsEnabled, lastWaterInteractionPoint, raf, pc, frame,
                 sceneObjects, scene, draw, listening, disposed, contextLost,
                 frameLog, ev, frames, events, dragSamples, viewVars,
                 texels, peaks, caustics>>

\* setLightIntensity(value): the effects [lightIntensity] and
\* [skyPreset, lightIntensity] both run
handleLightIntensityCommit ==
  /\ ShellReady
  /\ \E value \in Intensities \ {shell.lightIntensity} :
       /\ shell' = [shell EXCEPT !.lightIntensity = value, !.commits = @ + 1]
       /\ env' = SkyEffect(env, shell.skyPreset, value)
       /\ cube' = cubeCamera_update(cube, env')
  /\ UNCHANGED <<ws, spherePos, oldSpherePos, isDraggingSphere,
                 controlsEnabled, lastWaterInteractionPoint, raf, pc, frame,
                 sceneObjects, scene, draw, listening, disposed, contextLost,
                 frameLog, ev, frames, events, dragSamples, viewVars,
                 texels, peaks, caustics>>

\* setSpecularIntensity(value): the effect [specularIntensity] runs
handleSpecularIntensityCommit ==
  /\ ShellReady
  /\ \E value \in Intensities \ {shell.specularIntensity} :
       /\ shell' = [shell EXCEPT !.specularIntensity = value,
                                 !.commits = @ + 1]
       /\ env' = [env EXCEPT !.specular = value]
  /\ UNCHANGED <<ws, spherePos, oldSpherePos, isDraggingSphere,
                 controlsEnabled, lastWaterInteractionPoint, raf, pc, frame,
                 sceneObjects, scene, draw, listening, disposed, contextLost,
                 frameLog, ev, frames, events, dragSamples, cube, viewVars,
                 texels, peaks, caustics>>

\* the effect [useCustomWaterColor, waterColorShallow, waterColorDeep] runs
handleToggleCustomWaterColor ==
  /\ ShellReady
  /\ shell' = [shell EXCEPT !.useCustomWaterColor = ~@, !.commits = @ + 1]
  /\ env' = [env EXCEPT !.useCustomColor = shell'.useCustomWaterColor]
  /\ UNCHANGED <<ws, spherePos, oldSpherePos, isDraggingSphere,
                 controlsEnabled, lastWaterInteractionPoint, raf, pc, frame,
                 sceneObjects, scene, draw, listening, disposed, contextLost,
                 frameLog, ev, frames, events, dragSamples, cube, viewVars,
                 texels, peaks, caustics>>

\* setIsPaused(p => !p): isPaused is a prop of ControlPanel only; Stage and
\* WebGLWater take no such prop, so no effect of the scene runs
handleTogglePause ==
  /\ ShellReady
  /\ shell' = [shell EXCEPT !.isPaused = ~@, !.commits = @ + 1]
  /\ UNCHANGED <<ws, spherePos, oldSpherePos, isDraggingSphere,
                 controlsEnabled, lastWaterInteractionPoint, raf, pc, frame,
                 sceneObjects, scene, draw, listening, disposed, contextLost,
                 frameLog, ev, frames, events, dragSamples, env, cube,
                 viewVars, texels, peaks, caustics>>

\* ------------------------------------------------- the caustics generator
\* Directions, positions and UV coordinates are in thousandths; a raw
\* intensity is in thousandths too (0.2 is 200).
Eta == 750
CAUSTICS_SIZE == 512
HalfMax == 65504
Far == 1500
NaN == -1
Inf == -2
NotCovered == -3

Up == <<0, 1000, 0>>
Scale(k, v) == <<Quot(k * v[1], 1000), Quot(k * v[2], 1000), Quot(k * v[3], 1000)>>

Mag(x) == IF x < 0 THEN -x ELSE x

\* a * b / c for a >= 0, b > 0, c > 0 within 32 bits: exact where the
\* products fit, to within a thousandth where they do not, at most SlopeMax
SlopeMax == 1000000000
MulDiv(a, b, c) ==
  LET q == a \div c
      r == a % c
  IN IF q >= SlopeMax \div b THEN SlopeMax
     ELSE q * b + (IF r <= 2000000000 \div b THEN (r * b) \div c
                   ELSE r \div (c \div b))

\* length(v), scaled down first where the squares would not fit
Length(v) ==
  LET m == Max(Mag(v[1]), Max(Mag(v[2]), Mag(v[3])))
      s == m \div 10000 + 1
      w == <<Quot(v[1], s), Quot(v[2], s), Quot(v[3], s)>>
  IN s * ISqrt(w[1] * w[1] + w[2] * w[2] + w[3] * w[3])

\* GLSL refract(I, N, eta) with eta = 1.0 / 1.333
refract(I, N) ==
  LET d == Quot(Dot(N, I), 1000)
      k == 1000 - (((Eta * Eta) \div 1000) * ((1000000 - d * d) \div 1000)) \div 1000
  IN IF k < 0 THEN <<0, 0, 0>>
     ELSE Sub(Scale(Eta, I), Scale(Quot(Eta * d, 1000) + ISqrt(k * 1000), N))

\* project(origin, ray): the point where the ray meets y = -u_poolHeight.
\* The division by ray.y has no guard; a coordinate beyond Far keeps its sign
\* and is stored as Far.
Saturate(x) == Max(-Far, Min(Far, x))
project(origin, ray) ==
  IF ray[2] = 0 THEN [finite |-> FALSE, p |-> origin]
  ELSE LET t == Quot((-origin[2] - poolHeight) * 1000, ray[2])
       IN [finite |-> TRUE,
           p |-> <<Saturate(origin[1] + Quot(ray[1] * Saturate(t), 1000)),
                   origin[2] + Quot(ray[2] * t, 1000),
                   Saturate(origin[3] + Quot(ray[3] * Saturate(t), 1000))>>]

\* waterGeo: a plane of two segments per texel of the heightfield; the
\* vertex <<p, q>> has uv = <<p, q>> / MeshN and position = 2 * uv - 1
MeshN == 2 * GridN
Vertices == (0..MeshN) \X (0..MeshN)
Position(v) == <<(v[1] * 2000) \div MeshN - 1000, (v[2] * 2000) \div MeshN - 1000>>
Triangles ==
  UNION {{<<<<p, q>>, <<p, q + 1>>, <<p + 1, q>>>>,
          <<<<p, q + 1>>, <<p + 1, q + 1>>, <<p + 1, q>>>>} :
           p \in 0..(MeshN - 1), q \in 0..(MeshN - 1)}

\* texture2D(u_waterTexture, uv) at a vertex: the texel the vertex is the
\* centre of, or the mean of the texels it lies between (LinearFilter)
SampleLo(p) == ClampIndex((p + 1) \div 2 - 1)
SampleHi(p) == ClampIndex(p \div 2)
SampleInfo(f, v) ==
  LET t1 == f[<<SampleLo(v[1]), SampleLo(v[2])>>]
      t2 == f[<<SampleLo(v[1]), SampleHi(v[2])>>]
      t3 == f[<<SampleHi(v[1]), SampleLo(v[2])>>]
      t4 == f[<<SampleHi(v[1]), SampleHi(v[2])>>]
  IN [r |-> Quot(t1.r + t2.r + t3.r + t4.r, 4),
      g |-> Quot(t1.g + t2.g + t3.g + t4.g, 4),
      b |-> Quot(t1.b + t2.b + t3.b + t4.b, 4),
      a |-> Quot(t1.a + t2.a + t3.a + t4.a, 4)]

\* causticsVertexShader main: v_oldPos, v_newPos and gl_Position.xy
causticsVertexShader(info, position, lightDir) ==
  LET ny == 1000000 - (info.b * info.b + info.a * info.a)
      n == <<info.b, ISqrt(Max(0, ny)), info.a>>
      len == Max(1, Length(n))
      normal == <<Quot(n[1] * 1000, len), Quot(n[2] * 1000, len),
                  Quot(n[3] * 1000, len)>>
      refractedLight == refract(Neg(lightDir), Up)
      refractedRay == refract(Neg(lightDir), normal)
      origin == <<position[1], 0, -position[2]>>
      newPos == project(<<origin[1], origin[2] + Quot(info.r, 100), origin[3]>>,
                        refractedRay)
  IN [oldPos |-> project(origin, refractedLight),
      newPos |-> IF ny < 0 THEN [newPos EXCEPT !.finite = FALSE] ELSE newPos]

\* the rasteriser: within a triangle a varying is linear in the window
\* position gl_Position.xy = v_newPos.xz, so dFdx and dFdy are the same in
\* every fragment of the triangle (per unit of window position)
Window2(vs) == <<vs.newPos.p[1], vs.newPos.p[3]>>
Det(s0, s1, s2) ==
  (s1[1] - s0[1]) * (s2[2] - s0[2]) - (s2[1] - s0[1]) * (s1[2] - s0[2])
Slope(num, det) ==
  IF det = 0 THEN 0
  ELSE IF (num < 0) = (det < 0) THEN MulDiv(Mag(num), 1000, Mag(det))
  ELSE -MulDiv(Mag(num), 1000, Mag(det))
SlopeX(w0, w1, w2, s0, s1, s2) ==
  Slope((w1 - w0) * (s2[2] - s0[2]) - (w2 - w0) * (s1[2] - s0[2]),
        Det(s0, s1, s2))
SlopeY(w0, w1, w2, s0, s1, s2) ==
  Slope((w2 - w0) * (s1[1] - s0[1]) - (w1 - w0) * (s2[1] - s0[1]),
        Det(s0, s1, s2))
dFdx(w0, w1, w2, s0, s1, s2) ==
  <<SlopeX(w0[1], w1[1], w2[1], s0, s1, s2),
    SlopeX(w0[2], w1[2], w2[2], s0, s1, s2),
    SlopeX(w0[3], w1[3], w2[3], s0, s1, s2)>>
dFdy(w0, w1, w2, s0, s1, s2) ==
  <<SlopeY(w0[1], w1[1], w2[1], s0, s1, s2),
    SlopeY(w0[2], w1[2], w2[2], s0, s1, s2),
    SlopeY(w0[3], w1[3], w2[3], s0, s1, s2)>>

\* causticsFragmentShader main, as stored in the HalfFloatType target: the
\* red channel of every fragment of the triangle with vertices v0, v1, v2.
\* dFdx and dFdy are per pixel; the pixel size cancels in oldArea / newArea.
causticsFragmentShader_noDivide(v0, v1, v2) ==
  LET s0 == Window2(v0)
      s1 == Window2(v1)
      s2 == Window2(v2)
      ox == Length(dFdx(v0.oldPos.p, v1.oldPos.p, v2.oldPos.p, s0, s1, s2))
      oy == Length(dFdy(v0.oldPos.p, v1.oldPos.p, v2.oldPos.p, s0, s1, s2))
  IN (MulDiv(ox, 2, CAUSTICS_SIZE) * MulDiv(oy, 2, CAUSTICS_SIZE)) \div 5000
causticsFragmentShader(v0, v1, v2) ==
  LET s0 == Window2(v0)
      s1 == Window2(v1)
      s2 == Window2(v2)
      ox == Length(dFdx(v0.oldPos.p, v1.oldPos.p, v2.oldPos.p, s0, s1, s2))
      oy == Length(dFdy(v0.oldPos.p, v1.oldPos.p, v2.oldPos.p, s0, s1, s2))
      nx == Length(dFdx(v0.newPos.p, v1.newPos.p, v2.newPos.p, s0, s1, s2))
      ny == Length(dFdy(v0.newPos.p, v1.newPos.p, v2.newPos.p, s0, s1, s2))
      rx == MulDiv(ox, 1000, nx)
      ry == MulDiv(oy, 1000, ny)
  IN IF rx >= 1000 /\ ry \div 1000 > (5 * HalfMax) \div (rx \div 1000) THEN Inf
     ELSE IF rx <= 40000 /\ ry <= 40000 THEN (rx * ry) \div 5000
     ELSE ((rx \div 1000) * (ry \div 1000)) * 200

\* renderer.render(this.scene, this.camera) into this.target: what each
\* triangle of the mesh writes.  A triangle of no area covers no texel; the
\* rasterisation of a triangle with a non-finite vertex is undefined: it is
\* dropped or its fragments carry NaN.
RawCaustics(f, lightDir, dropped) ==
  LET shaded == {<<v, causticsVertexShader(SampleInfo(f, v), Position(v),
                                           lightDir)>> : v \in Vertices}
      Out(v) == (CHOOSE pr \in shaded : pr[1] = v)[2]
  IN [tri \in Triangles |->
        LET v0 == Out(tri[1])
            v1 == Out(tri[2])
            v2 == Out(tri[3])
        IN IF ~(v0.newPos.finite /\ v1.newPos.finite /\ v2.newPos.finite)
             THEN IF dropped THEN NotCovered ELSE NaN
           ELSE IF Det(Window2(v0), Window2(v1), Window2(v2)) = 0
             THEN NotCovered
           ELSE causticsFragmentShader(v0, v1, v2)]

\* gl_Position.xy of every vertex of the mesh in that pass
VertexPositions(f, lightDir) ==
  [v \in Vertices |->
     causticsVertexShader(SampleInfo(f, v), Position(v), lightDir).newPos]

\* causticsGenerator.update(renderer, waterTexture, lightDir), first pass:
\* the raw intensities, before the two blur passes
CallCausticsUpdate ==
  /\ \E dropped \in BOOLEAN :
       caustics' = [u_lightDir |-> env.sunPosition,
                    gl_Position |->
                      VertexPositions(texels[getTexture(ws)], env.sunPosition),
                    raw |-> RawCaustics(texels[getTexture(ws)],
                                        env.sunPosition, dropped)]
  /\ UNCHANGED <<ws, spherePos, oldSpherePos, isDraggingSphere,
                 controlsEnabled, lastWaterInteractionPoint, raf, pc, frame,
                 sceneObjects, scene, draw, listening, disposed, contextLost,
                 frameLog, ev, frames, events, dragSamples, shellVars,
                 viewVars, texels, peaks>>

\* poolMaterial.onBeforeCompile, caustics lookup: the uv at which a
\* submerged point samples u_causticsTexture
causticsUv(worldPos, lightDir) ==
  LET refractedLight == refract(Neg(lightDir), Up)
      x == worldPos[1] - Quot(worldPos[2] * refractedLight[1], refractedLight[2])
      z == worldPos[3] - Quot(worldPos[2] * refractedLight[3], refractedLight[2])
  IN <<Quot(x, 2) + 500, Quot(z, 2) + 500>>

\* the uv of the caustics target that window position s covers, and the
\* texel of a uv
TargetUv(s) == <<Quot(s[1], 2) + 500, Quot(s[2], 2) + 500>>
TexelAt(uv) == <<(uv[1] * CAUSTICS_SIZE) \div 1000, (uv[2] * CAUSTICS_SIZE) \div 1000>>

\* ------------------------------------------------------ the frame callback
NoShader == [defined |-> FALSE, u_waterTexture |-> -1, programs |-> {}]
NoDraw == [pass |-> "none", sampled |-> {}, waterVisible |-> TRUE,
           poolSide |-> "back", clip |-> 0, target |-> "screen"]

\* the part of the frame that follows the pass just made
OtherFrameVars == <<spherePos, isDraggingSphere, controlsEnabled,
                    lastWaterInteractionPoint, listening, disposed,
                    contextLost, frames, events, shell, env, cube,
                    texels, peaks, caustics>>

\* the statement order of animate: the step that follows step p
AfterPass_stampAfterNormals(p) ==
  CASE p = "idle" -> "step"
    [] p = "step" -> "normals"
    [] p = "normals" -> "stamp"
    [] p = "stamp" -> "caustics"
    [] p = "caustics" -> "reflSetup"
    [] p = "reflSetup" -> "reflRender"
    [] p = "reflRender" -> "reflRestore"
    [] p = "reflRestore" -> "composite"
    [] p = "composite" -> "idle"
AfterPass(p) ==
  CASE p = "idle" -> "stamp"
    [] p = "stamp" -> "step"
    [] p = "step" -> "normals"
    [] p = "normals" -> "caustics"
    [] p = "caustics" -> "reflSetup"
    [] p = "reflSetup" -> "reflRender"
    [] p = "reflRender" -> "reflRestore"
    [] p = "reflRestore" -> "composite"
    [] p = "composite" -> "idle"

\* ------------------------------------------------- the cameras
\* camera = PerspectiveCamera(45, aspect, 0.01, 100): fov in degrees, the
\* others in thousandths; reflector = new PerspectiveCamera() has the defaults
CameraLens == [fov |-> 45, aspect |-> 1778, near |-> 10, far |-> 100000]
DefaultLens == [fov |-> 50, aspect |-> 1000, near |-> 100, far |-> 2000000]
InitCameraPos == <<2500, 2500, 3500>>
CameraPoses == {<<2500, 2500, 3500>>, <<-3000, 1000, 2000>>}

\* Vector3.reflect(normal) for a unit axis normal
Reflect(v, normal) ==
  LET d == 2 * Dot(v, normal)
  IN <<v[1] - d * normal[1], v[2] - d * normal[2], v[3] - d * normal[3]>>

\* the forward axis the camera's quaternion gives it after lookAt(target):
\* kept unnormalised (target - position), lookAt uses only its direction
Forward(position, target) == Sub(target, position)

\* controls.update(): the camera moves to the orbited position and
\* camera.lookAt(controls.target) runs; lookAt refreshes camera.matrixWorld
\* from the new position and the quaternion it had before, then sets the new
\* quaternion
controls_update(v) ==
  LET position == IF v.orbit # Null THEN v.orbit ELSE v.position
  IN [v EXCEPT !.position = position,
               !.forward = Forward(position, <<0, 0, 0>>),
               !.matrixWorld = [position |-> position, forward |-> v.forward],
               !.orbit = Null]

\* normal = (0, 1, 0) with the rotation of waterMesh.matrixWorld applied:
\* the matrix is the identity until a render of the scene updates it from
\* waterMesh.rotation.x = -PI / 2, which turns (0, 1, 0) into (0, 0, -1)
ReflectorNormal(v) ==
  IF v.waterMatrixWorld = "rotated" THEN <<0, 0, -1>> ELSE <<0, 1, 0>>

updateReflector(v) ==
  LET reflectorWorldPosition == <<0, 0, 0>>
      cameraWorldPosition == v.matrixWorld.position
      normal == ReflectorNormal(v)
      viewPos == Add(Neg(Reflect(Sub(reflectorWorldPosition,
                                     cameraWorldPosition), normal)),
                     reflectorWorldPosition)
      lookAtPosition == Add(v.matrixWorld.forward, cameraWorldPosition)
      target == Add(Neg(Reflect(Sub(reflectorWorldPosition, lookAtPosition),
                                normal)),
                    reflectorWorldPosition)
  IN [position |-> viewPos, target |-> target, lens |-> CameraLens,
      updated |-> TRUE]

\* renderer.render(scene, cam): scene.updateMatrixWorld() brings
\* waterMesh.matrixWorld up to date, and the camera rendered with gets its
\* matrixWorld refreshed
SceneMatrices(v, withCamera) ==
  [v EXCEPT !.waterMatrixWorld = "rotated",
            !.matrixWorld = IF withCamera
                            THEN [position |-> v.position, forward |-> v.forward]
                            ELSE @]

\* OrbitControls rotates the camera about the target on a pointer drag while
\* controls.enabled; the new position is applied by the next controls.update()
OrbitDrag ==
  /\ ShellReady
  /\ controlsEnabled
  /\ \E pose \in CameraPoses \ {view.position} :
       view' = [view EXCEPT !.orbit = pose]
  /\ shell' = [shell EXCEPT !.commits = @ + 1]
  /\ UNCHANGED <<ws, spherePos, oldSpherePos, isDraggingSphere,
                 controlsEnabled, lastWaterInteractionPoint, raf, pc, frame,
                 sceneObjects, scene, draw, listening, disposed, contextLost,
                 frameLog, ev, frames, events, dragSamples, env, cube,
                 reflector, texels, peaks, caustics>>

\* causticsGenerator.update(renderer, waterTexture, sunPosition): its three
\* renders go into the generator's own target and blurTarget, and the
\* render target is restored afterwards
causticsGenerator_update_intoWrite(w) ==
  [w EXCEPT !.img[w.write] = Append(w.img[w.read], Op("caustics", Null, Null, 0, 0))]
causticsGenerator_update(w) == w

\* requestAnimationFrame(animate) .. the two wind drops
AnimateBegin ==
  /\ pc = "idle"
  /\ frames < MaxFrames
  /\ \E id \in raf.pending :
       raf' = [pending |-> (raf.pending \ {id}) \cup {raf.next},
               next |-> raf.next + 1]
  /\ LET time == frames * FrameMillis
         w1 == addDrop(ws, WindSin(time, 3, 2000), WindCos(time, 5, 1000),
                       WindRadius1, windStrength)
     IN ws' = addDrop(w1, WindSin(time, 2, -1000), WindCos(time, 4, -3000),
                      WindRadius2, -((windStrength * 7) \div 10))
  /\ frame' = [poolShader |-> sceneObjects.poolShader.defined,
               sphereShader |-> sceneObjects.sphereShader.defined,
               waterTexture |-> -1]
  /\ frameLog' = <<"addDrop", "addDrop">>
  /\ frames' = frames + 1
  /\ dragSamples' = 0
  /\ ev' = NoEvent
  /\ view' = controls_update(view)
  /\ pc' = AfterPass(pc)
  /\ UNCHANGED <<spherePos, oldSpherePos, isDraggingSphere, controlsEnabled,
                 lastWaterInteractionPoint, sceneObjects, scene, draw,
                 listening, disposed, contextLost, events, shellVars,
                 reflector, texels, peaks, caustics>>

\* oldSpherePos.distanceTo(sphere.position) > 0.001
SphereMoved_any(old, new) == Dist2(old, new) >= 0
SphereMoved(old, new) == Dist2(old, new) > StampEpsilon * StampEpsilon

\* new THREE.Vector3(p.x, p.y, -p.z)
FlipZ(p) == <<p[1], p[2], -p[3]>>

\* oldSpherePos.copy(sphere.position)
StampedFrom_stale(old, new) == old
StampedFrom(old, new) == new

AnimateStamp ==
  /\ pc = "stamp"
  /\ IF SphereMoved(oldSpherePos, spherePos)
     THEN /\ ws' = moveSphere(ws, FlipZ(oldSpherePos), FlipZ(spherePos),
                              sphereRadius)
          /\ oldSpherePos' = StampedFrom(oldSpherePos, spherePos)
          /\ frameLog' = Append(frameLog, "moveSphere")
     ELSE UNCHANGED <<ws, oldSpherePos, frameLog>>
  /\ pc' = AfterPass(pc)
  /\ UNCHANGED <<raf, frame, sceneObjects, scene, draw, ev, dragSamples>>
  /\ UNCHANGED <<OtherFrameVars, viewVars>>

AnimateStep ==
  /\ pc = "step"
  /\ ws' = step(ws)
  /\ frameLog' = Append(frameLog, "step")
  /\ pc' = AfterPass(pc)
  /\ UNCHANGED <<oldSpherePos, raf, frame, sceneObjects, scene, draw, ev,
                 dragSamples>>
  /\ UNCHANGED <<OtherFrameVars, viewVars>>

AnimateNormals_thenStep ==
  /\ pc = "normals"
  /\ ws' = step(updateNormals(ws))
  /\ frameLog' = frameLog \o <<"updateNormals", "step">>
  /\ pc' = AfterPass(pc)
  /\ UNCHANGED <<oldSpherePos, raf, frame, sceneObjects, scene, draw, ev,
                 dragSamples>>
  /\ UNCHANGED <<OtherFrameVars, viewVars>>
AnimateNormals ==
  /\ pc = "normals"
  /\ ws' = updateNormals(ws)
  /\ frameLog' = Append(frameLog, "updateNormals")
  /\ pc' = AfterPass(pc)
  /\ UNCHANGED <<oldSpherePos, raf, frame, sceneObjects, scene, draw, ev,
                 dragSamples>>
  /\ UNCHANGED <<OtherFrameVars, viewVars>>

\* if (shader) shader.uniforms.u_waterTexture.value = waterTexture
PushTexture_skip(shader, held, waterTexture) == shader
PushTexture(shader, held, waterTexture) ==
  IF held THEN [shader EXCEPT !.u_waterTexture = waterTexture] ELSE shader

\* waterTexture = getTexture(); causticsGenerator.update(..);
\* the pool and sphere shader uniform updates
AnimateCaustics ==
  /\ pc = "caustics"
  /\ LET waterTexture == getTexture(ws)
     IN /\ frame' = [frame EXCEPT !.waterTexture = waterTexture]
        /\ sceneObjects' =
             [sceneObjects EXCEPT
                !.causticsMaterial = [u_waterTexture |-> waterTexture,
                                      u_lightDir |-> env.sunPosition],
                !.poolShader = PushTexture(@, frame.poolShader, waterTexture),
                !.sphereShader = PushTexture(@, frame.sphereShader, waterTexture)]
        /\ draw' = [NoDraw EXCEPT !.pass = "caustics",
                                  !.sampled = {<<"caustics", waterTexture>>},
                                  !.target = "caustics"]
  /\ ws' = causticsGenerator_update(ws)
  /\ frameLog' = Append(frameLog, "caustics")
  /\ pc' = AfterPass(pc)
  /\ UNCHANGED <<oldSpherePos, raf, scene, ev, dragSamples>>
  /\ UNCHANGED <<OtherFrameVars, viewVars>>

\* waterMesh.visible = false .. updateReflector() ..
\* renderer.setRenderTarget(reflectionRenderTarget)
ReflectionSetup ==
  /\ pc = "reflSetup"
  /\ scene' = [waterVisible |-> FALSE, poolSide |-> "front", clip |-> 1,
               target |-> "reflection"]
  /\ reflector' = updateReflector(view)
  /\ pc' = AfterPass(pc)
  /\ UNCHANGED <<ws, oldSpherePos, raf, frame, sceneObjects, draw, frameLog,
                 ev, dragSamples, view>>
  /\ UNCHANGED OtherFrameVars

\* WebGLRenderer compiles a material the first time it draws it with a new
\* program key (side, number of clipping planes); compiling calls
\* onBeforeCompile, which binds u_waterTexture to getTexture() and stores the
\* shader in sceneObjects.current
onBeforeCompile(shader, key, drawn) ==
  IF drawn /\ key \notin shader.programs
  THEN [defined |-> TRUE, u_waterTexture |-> getTexture(ws),
        programs |-> shader.programs \cup {key}]
  ELSE shader

\* renderer.render(scene, cam) with the scene objects so: the materials
\* drawn (the water mesh only while it is visible) and the heightfield
\* texture each of them samples
RenderScene(so, pass, inView) ==
  LET poolKey == <<scene.poolSide, scene.clip>>
      sphereKey == <<"front", scene.clip>>
      pool == onBeforeCompile(so.poolShader, poolKey, "pool" \in inView)
      sphere == onBeforeCompile(so.sphereShader, sphereKey, "sphere" \in inView)
  IN /\ sceneObjects' = [so EXCEPT !.poolShader = pool, !.sphereShader = sphere]
     /\ draw' = [pass |-> pass,
                 sampled |->
                   {<<"pool", pool.u_waterTexture>> : x \in inView \cap {"pool"}}
                   \cup {<<"sphere", sphere.u_waterTexture>> :
                           x \in inView \cap {"sphere"}}
                   \cup (IF scene.waterVisible
                         THEN {<<"water", so.waterMaterial.u_waterTexture>>}
                         ELSE {}),
                 waterVisible |-> scene.waterVisible,
                 poolSide |-> scene.poolSide,
                 clip |-> scene.clip,
                 target |-> scene.target]

ReflectionRender ==
  /\ pc = "reflRender"
  /\ \E inView \in Views : RenderScene(sceneObjects, "reflection", inView)
  /\ view' = SceneMatrices(view, FALSE)
  /\ frameLog' = Append(frameLog, "reflection")
  /\ pc' = AfterPass(pc)
  /\ UNCHANGED <<ws, oldSpherePos, raf, frame, scene, ev, dragSamples,
                 reflector>>
  /\ UNCHANGED OtherFrameVars

ReflectionRestore_keepsSide ==
  /\ pc = "reflRestore"
  /\ scene' = [waterVisible |-> TRUE, poolSide |-> scene.poolSide, clip |-> 0,
               target |-> "screen"]
  /\ pc' = AfterPass(pc)
  /\ UNCHANGED <<ws, oldSpherePos, raf, frame, sceneObjects, draw, frameLog,
                 ev, dragSamples>>
  /\ UNCHANGED <<OtherFrameVars, viewVars>>

\* renderer.setRenderTarget(null) .. bubbleParticles.visible = true
ReflectionRestore ==
  /\ pc = "reflRestore"
  /\ scene' = [waterVisible |-> TRUE, poolSide |-> "back", clip |-> 0,
               target |-> "screen"]
  /\ pc' = AfterPass(pc)
  /\ UNCHANGED <<ws, oldSpherePos, raf, frame, sceneObjects, draw, frameLog,
                 ev, dragSamples>>
  /\ UNCHANGED <<OtherFrameVars, viewVars>>

\* waterMaterial.uniforms.u_waterTexture.value = waterTexture ..
\* renderer.render(scene, camera)
AnimateComposite ==
  /\ pc = "composite"
  /\ \E inView \in Views :
       RenderScene([sceneObjects EXCEPT
                      !.waterMaterial = [u_waterTexture |-> frame.waterTexture]],
                   "composite", inView)
  /\ view' = SceneMatrices(view, TRUE)
  /\ frameLog' = Append(frameLog, "composite")
  /\ pc' = AfterPass(pc)
  /\ UNCHANGED <<ws, oldSpherePos, raf, frame, scene, ev, dragSamples,
                 reflector>>
  /\ UNCHANGED OtherFrameVars

animate ==
  \/ AnimateBegin \/ AnimateStamp \/ AnimateStep \/ AnimateNormals
  \/ AnimateCaustics \/ ReflectionSetup \/ ReflectionRender
  \/ ReflectionRestore \/ AnimateComposite

\* ------------------------------------------------- cleanup and environment
\* the function returned by the effect
Cleanup ==
  /\ pc = "idle"
  /\ listening
  /\ listening' = FALSE
  /\ raf' = [raf EXCEPT !.pending = raf.pending \ {animId}]
  /\ disposed' = TRUE
  /\ ev' = NoEvent
  /\ UNCHANGED <<ws, spherePos, oldSpherePos, isDraggingSphere,
                 controlsEnabled, lastWaterInteractionPoint, pc, frame,
                 sceneObjects, scene, draw, contextLost, frameLog, frames,
                 events, dragSamples>>
  /\ UNCHANGED <<shellVars, viewVars, texels, peaks, caustics>>

\* the browser loses the WebGL context; the component registers no
\* webglcontextlost listener, so no program state changes
ContextLoss ==
  /\ pc = "idle"
  /\ ~contextLost
  /\ contextLost' = TRUE
  /\ ev' = NoEvent
  /\ UNCHANGED <<ws, spherePos, oldSpherePos, isDraggingSphere,
                 controlsEnabled, lastWaterInteractionPoint, raf, pc, frame,
                 sceneObjects, scene, draw, listening, disposed, frameLog,
                 frames, events, dragSamples>>
  /\ UNCHANGED <<shellVars, viewVars, texels, peaks, caustics>>

\* ------------------------------------------------------ the specification
\* Spec and ShellSpec identify a heightfield image by the passes that
\* produced it and do not follow its pixels (texels = Null); FieldSpec
\* follows the pixels of both targets from their cleared state.
InitState ==
  /\ ws = [read |-> 0, write |-> 1, img |-> [i \in Images |-> <<>>],
           pass |-> NoPass, calls |-> 0]
  /\ spherePos = InitSpherePos
  /\ oldSpherePos = InitSpherePos
  /\ isDraggingSphere = FALSE
  /\ controlsEnabled = TRUE
  /\ lastWaterInteractionPoint = Null
  /\ raf = [pending |-> {animId}, next |-> animId + 1]
  /\ pc = "idle"
  /\ frame = [poolShader |-> FALSE, sphereShader |-> FALSE, waterTexture |-> -1]
  /\ sceneObjects = [poolShader |-> NoShader, sphereShader |-> NoShader,
                     waterMaterial |-> [u_waterTexture |-> -1],
                     causticsMaterial |-> [u_waterTexture |-> -1,
                                           u_lightDir |-> <<0, 1000, 0>>]]
  /\ scene = [waterVisible |-> TRUE, poolSide |-> "back", clip |-> 0,
              target |-> "screen"]
  /\ draw = NoDraw
  /\ listening = TRUE
  /\ disposed = FALSE
  /\ contextLost = FALSE
  /\ frameLog = <<>>
  /\ ev = NoEvent
  /\ frames = 0
  /\ events = 0
  /\ dragSamples = 0
  /\ shell = [isPaused |-> FALSE, lightPosition |-> InitLightPosition,
              skyPreset |-> "default", lightIntensity |-> InitLightIntensity,
              specularIntensity |-> InitSpecularIntensity,
              useCustomWaterColor |-> FALSE, commits |-> 0]
  /\ env = [sunPosition |-> Normalize(InitLightPosition),
            skySun |-> Normalize(InitLightPosition),
            lightDir |-> Normalize(InitLightPosition),
            sunLight |-> Normalize(InitLightPosition),
            preset |-> "default", intensity |-> InitLightIntensity,
            specular |-> InitSpecularIntensity, useCustomColor |-> FALSE]
  /\ cube = [sun |-> Normalize(InitLightPosition), preset |-> "default",
             updates |-> 0]
  /\ view = [position |-> InitCameraPos,
             forward |-> Forward(InitCameraPos, <<0, 0, 0>>),
             matrixWorld |-> [position |-> InitCameraPos,
                              forward |-> <<0, 0, -1000>>],
             orbit |-> Null, waterMatrixWorld |-> "identity"]
  /\ reflector = [position |-> <<0, 0, 0>>, target |-> <<0, 0, -1000>>,
                  lens |-> DefaultLens, updated |-> FALSE]
  /\ peaks = <<>>
  /\ caustics = Null

Init == InitState /\ texels = Null

FieldInit == InitState /\ texels = [i \in Images |-> ZeroField]

Next ==
  \/ onPointerDownImpl
  \/ onPointerMoveImpl
  \/ onPointerUpImpl
  \/ onPointerLeaveImpl
  \/ animate
  \/ Cleanup
  \/ ContextLoss

Spec == Init /\ [][Next]_vars

\* the shell drives the mounted component: control panel commits, camera
\* orbits and frames
ShellNext ==
  \/ handleLightPositionChange
  \/ handleSkyPresetChange
  \/ handleLightIntensityCommit
  \/ handleSpecularIntensityCommit
  \/ handleToggleCustomWaterColor
  \/ handleTogglePause
  \/ OrbitDrag
  \/ animate

ShellSpec == Init /\ [][ShellNext]_vars

\* a client of the simulator calling its four operations in any order on
\* the cleared targets, pixels included
FieldNext ==
  \/ CallAddDrop
  \/ CallMoveSphere
  \/ CallStep
  \/ CallUpdateNormals

FieldSpec == FieldInit /\ [][FieldNext]_vars

\* one disturbance injected into the cleared targets and then propagated
\* with no further input
DecayNext ==
  \/ Inject
  \/ Propagate

DecaySpec == FieldInit /\ [][DecayNext]_vars

\* a heightfield stamped by the sphere, a light position committed by the
\* shell, and then one run of the caustics generator
CausticsNext ==
  \/ caustics = Null /\ ws.calls < MaxStamps /\ CallMoveSphere
  \/ caustics = Null /\ ws.calls < MaxStamps /\ CallUpdateNormals
  \/ caustics = Null /\ shell.commits = 0 /\ handleLightPositionChange
  \/ caustics = Null /\ CallCausticsUpdate

CausticsSpec == FieldInit /\ [][CausticsNext]_vars

\* ---------------------------------------------------------------- claims
Current == ws.img[ws.read]
Scratch == ws.img[ws.write]
IsPrefix(s, t) == Len(s) <= Len(t) /\ s = SubSeq(t, 1, Len(s))
OpNames(h) == {h[i].op : i \in 1..Len(h)}

\* C1: the read and write render targets are always two distinct images and
\* every pass sampled the image that was `read` and rendered into the image
\* that was `write`: the last pass has different source and target, its
\* target is now current and its source is now scratch, and the current
\* image holds exactly one pass more than the scratch image, all passes made
\* so far in order.
C1_PassNeverReadsItsTarget ==
  /\ ws.read \in Images /\ ws.write \in Images /\ ws.read # ws.write
  /\ Len(Current) = ws.calls
  /\ ws.calls > 0 =>
       /\ ws.pass.src # ws.pass.dst
       /\ ws.pass.src = ws.write /\ ws.pass.dst = ws.read
       /\ Scratch = SubSeq(Current, 1, ws.calls - 1)

C1_Witness ==
  /\ pc = "caustics"
  /\ OpNames(Current) = {"addDrop", "moveSphere", "step", "updateNormals"}

\* C2: every simulator call toggles the roles exactly once, after its
\* render: getTexture returns the image the last call wrote, and after n
\* calls the current image is the initial read image (image 0) exactly when
\* n is even.
C2_TogglePerCall ==
  /\ (getTexture(ws) = 0) <=> (ws.calls % 2 = 0)
  /\ ws.calls > 0 => getTexture(ws) = ws.pass.dst

C2_Witness ==
  /\ ws.calls % 2 = 1 /\ ws.calls >= 5
  /\ getTexture(ws) = 1
  /\ ws.pass.mat = "updateNormals"

\* C3 (as stated): within a frame the passes run in the order inject,
\* propagate, normals, stamp, caustics, reflection, composite.
SpecOrder == <<"addDrop", "addDrop", "step", "updateNormals", "moveSphere",
               "caustics", "reflection", "composite">>
CodeOrder == <<"addDrop", "addDrop", "moveSphere", "step", "updateNormals",
               "caustics", "reflection", "composite">>
Without(order, name) == SelectSeq(order, LAMBDA n : n # name)

C3_SpecOrder ==
  \/ IsPrefix(frameLog, SpecOrder)
  \/ IsPrefix(frameLog, Without(SpecOrder, "moveSphere"))

\* C3 (amended): within every frame the passes run in the fixed order inject
\* disturbances (two wind drops), then stamp sphere motion (only when the
\* sphere moved), then propagate, then recompute normals, then caustics,
\* then reflection, then the final composite.
C3_CodeOrder ==
  \/ IsPrefix(frameLog, CodeOrder)
  \/ IsPrefix(frameLog, Without(CodeOrder, "moveSphere"))

C3_Witness == pc = "idle" /\ frameLog = CodeOrder

\* C4: once the cleanup has run no further frame is driven: no pass of the
\* frame callback is in progress on the disposed pipeline.
C4_NoFrameAfterCleanup == disposed => pc = "idle"

\* C5: a context loss is fatal: the pipeline is torn down and no further
\* pass is submitted on the lost context.
C5_ContextLossTearsDown == contextLost => (disposed /\ pc = "idle")

\* C6: a pointer-down or pointer-move whose position does not map into the
\* water's UV square (the ray misses the water plane or lands outside the
\* pool surface) makes no addDrop call and leaves the heightfield unchanged.
OutsideWater(e) ==
  /\ e.type \in {"down", "move"}
  /\ ~e.hitSphere
  /\ (~e.hit \/ ~InUnitSquare(WaterUv(e.point)))

C6_OutsidePointerIgnored == [][OutsideWater(ev') => ws' = ws]_vars

\* C7: every moveSphere pass carries both centres (remove and add in one
\* pass) and its old centre is the new centre of the previous stamp (the
\* initial position for the first); the net amount stamped into every
\* sampled cell is V(initial position) - V(last stamped position), and the
\* last stamped position is the remembered old position.
Stamps == SelectSeq(Current, LAMBDA o : o.op = "moveSphere")

RECURSIVE SumStamps(_, _)
SumStamps(st, uv) ==
  IF st = <<>> THEN 0 ELSE StampDelta(Head(st), uv) + SumStamps(Tail(st), uv)

C7_StampsChain ==
  LET st == Stamps
  IN /\ \A i \in 1..Len(st) :
          /\ st[i].a = IF i = 1 THEN FlipZ(InitSpherePos) ELSE st[i - 1].b
          /\ st[i].radius = sphereRadius
     /\ Len(st) > 0 => st[Len(st)].b = FlipZ(oldSpherePos)
     /\ Len(st) = 0 => oldSpherePos = InitSpherePos
     /\ Len(st) > 0 =>
          \A uv \in Cells :
            SumStamps(st, uv) =
              volumeInSphere(FlipZ(InitSpherePos), sphereRadius, uv)
              - volumeInSphere(FlipZ(oldSpherePos), sphereRadius, uv)

C7_Witness ==
  /\ Len(Stamps) >= 2
  /\ \E uv \in Cells : SumStamps(Stamps, uv) # 0
  /\ \E uv \in Cells : StampDelta(Stamps[1], uv) # SumStamps(Stamps, uv)

\* C8: moveSphere runs only in the stamp step of a frame and only when the
\* sphere is farther than the epsilon from the last stamped position; when
\* it is not, that step makes no pass, no swap and does not advance the
\* remembered old position.
StampStep ==
  /\ (ws'.calls # ws.calls /\ ws'.pass.mat = "moveSphere") =>
       (pc = "stamp" /\ Dist2(oldSpherePos, spherePos) > StampEpsilon * StampEpsilon)
  /\ (pc = "stamp" /\ Dist2(oldSpherePos, spherePos) <= StampEpsilon * StampEpsilon) =>
       (ws' = ws /\ oldSpherePos' = oldSpherePos)
  /\ (pc = "stamp" /\ Dist2(oldSpherePos, spherePos) > StampEpsilon * StampEpsilon) =>
       (ws'.calls = ws.calls + 1 /\ oldSpherePos' = spherePos)

C8_StampOnlyWhenMoved == [][StampStep]_vars

C8_Witness ==
  /\ pc = "step"
  /\ spherePos # oldSpherePos
  /\ frameLog = <<"addDrop", "addDrop">>

\* C9: between two consecutive frame ticks the sphere's position is updated
\* from pointer input at most once.
C9_OneSamplePerFrame == dragSamples <= 1

\* C10: whenever the caustics pass, the pool and sphere materials or the
\* water material sample the heightfield in a frame, the texture bound is
\* the simulator's current image at that moment.
SamplingStep ==
  pc \in {"caustics", "reflRender", "composite"} =>
    /\ ws' = ws
    /\ \A s \in draw'.sampled : s[2] = getTexture(ws)

C10_SampledIsCurrent == [][SamplingStep]_vars

C10_Witness ==
  /\ pc = "idle" /\ draw.pass = "composite"
  /\ frame.poolShader /\ frame.sphereShader
  /\ getTexture(ws) = 1
  /\ draw.sampled = {<<"pool", 1>>, <<"sphere", 1>>, <<"water", 1>>}
  /\ ws.pass.mat = "updateNormals"

\* C11: only addDrop, moveSphere, step and updateNormals change a
\* heightfield image or the read/write roles: the caustics update, the
\* reflection setup, render and restore, and the final composite (which
\* only read getTexture()) leave both images and both roles as they were,
\* and every record in either image is a pass of one of the four operations.
SimulatorOps == {"addDrop", "moveSphere", "step", "updateNormals"}

Heightfield(w) == [img |-> w.img, read |-> w.read, write |-> w.write]

ReadOnlyStep ==
  /\ pc \in {"caustics", "reflSetup", "reflRender", "reflRestore", "composite"}
       => Heightfield(ws') = Heightfield(ws)
  /\ Heightfield(ws') # Heightfield(ws) =>
       /\ ws'.calls > ws.calls
       /\ ws'.pass.mat \in SimulatorOps
  /\ \A i \in Images : OpNames(ws'.img[i]) \subseteq SimulatorOps

C11_OnlySimulatorWrites == [][ReadOnlyStep]_vars

C11_Witness ==
  /\ pc = "idle" /\ draw.pass = "composite" /\ frames = 2
  /\ sceneObjects.causticsMaterial.u_waterTexture = getTexture(ws)
  /\ OpNames(Current) = SimulatorOps

\* C12: the environment cubemap corresponds to the current sky preset and
\* the current sun direction: every change of either regenerates it.
C12_CubemapCurrent == cube.sun = env.skySun /\ cube.preset = env.preset

\* C13: the cubemap is regenerated only by a change of the sky preset or of
\* the sun direction; a frame step or a change of any other parameter does
\* not regenerate it.
CubemapRegenerated == cube'.updates # cube.updates

C13_RegeneratedOnlyOnSkyChange ==
  [][CubemapRegenerated =>
       (env'.preset # env.preset \/ env'.skySun # env.skySun)]_vars

\* C14: while the shell's pause flag is on, no step of the frame loop
\* changes the heightfield images or their roles.
FrameStep == pc' # pc

C14_PausedFreezesHeightfield ==
  [][(shell.isPaused /\ FrameStep) => Heightfield(ws') = Heightfield(ws)]_vars

\* C15: whenever the reflection is rendered, the reflection camera is the
\* mirror image of the real camera across the plane y = 0 (position and
\* viewing direction with y negated) and has the real camera's fov,
\* aspect, near and far.
MirrorY(p) == <<p[1], -p[2], p[3]>>

C15_ReflectorMirrorsCamera ==
  pc = "reflRender" =>
    /\ reflector.position = MirrorY(view.position)
    /\ Sub(reflector.target, reflector.position) = MirrorY(view.forward)
    /\ reflector.lens = CameraLens

\* C16: the sun direction held by sunPosition, the sky material, the water
\* material, the directional light and the caustics material has length 1
\* (to within the rounding of the thousandths) in every reachable state.
Abs(x) == IF x < 0 THEN -x ELSE x
IsUnit(v) == Abs(Dot(v, v) - 1000000) <= 10000

C16_SunIsUnit ==
  /\ IsUnit(env.sunPosition) /\ IsUnit(env.skySun)
  /\ IsUnit(env.lightDir) /\ IsUnit(env.sunLight)
  /\ IsUnit(sceneObjects.causticsMaterial.u_lightDir)

\* the last pass made and the one before it; the pixels of the current
\* image and of the scratch image, which the last pass read
LastOp == Current[Len(Current)]
PrevOp == Current[Len(Current) - 1]
Now == texels[ws.read]
Before == texels[ws.write]

\* C17 (as stated): moveSphere(A, B, r) immediately followed by
\* moveSphere(B, A, r) returns every channel of every cell to its value
\* before the first call.
RoundTrip ==
  /\ Len(Current) >= 2
  /\ LastOp.op = "moveSphere" /\ PrevOp.op = "moveSphere"
  /\ LastOp.a = PrevOp.b /\ LastOp.b = PrevOp.a
  /\ LastOp.radius = PrevOp.radius /\ LastOp.radius > 0

\* the step of the second call: before it the scratch image still holds the
\* pixels the first call read
SecondCall == ws'.calls = ws.calls + 1 /\ RoundTrip'

C17_RoundTripExact == [][SecondCall => Now' = Before]_vars

\* C17 (amended): for all centres A and B and every radius r > 0,
\* moveSphere(A, B, r) immediately followed by moveSphere(B, A, r) returns
\* the velocity and normal channels of every cell exactly and the height of
\* every cell to within the rounding of the four float operations: at most
\* two units in the last place of |h| + V(A) + V(B).
WithinRounding ==
  \A c \in GridCells :
    LET old == Before[c]
        new == Now'[c]
        bound == Abs(old.r)
                 + volumeInSphere(LastOp.a, LastOp.radius, Uv(c))
                 + volumeInSphere(LastOp.b, LastOp.radius, Uv(c))
    IN /\ new.g = old.g /\ new.b = old.b /\ new.a = old.a
       /\ Abs(new.r - old.r) <= 2 * Ulp(bound)

C17_RoundTripWithinRounding == [][SecondCall => WithinRounding]_vars

C17_Witness ==
  /\ RoundTrip
  /\ LET first == Texels(SubSeq(Current, 1, Len(Current) - 2))
     IN /\ \E c \in GridCells : first[c].r # 0 /\ Before[c].r # first[c].r
        /\ \E c \in GridCells : Now[c].r # first[c].r

\* C18: addDrop with radius > 0 leaves every cell whose UV distance from
\* the centre is at least the radius unchanged in all four channels, and in
\* every cell it copies the velocity and normal channels.
AfterDrop == Len(Current) >= 1 /\ LastOp.op = "addDrop" /\ LastOp.radius > 0

Outside(c) == Dist2(LastOp.a, Uv(c)) >= LastOp.radius * LastOp.radius

C18_DropIsLocal ==
  AfterDrop =>
    \A c \in GridCells :
      /\ Now[c].g = Before[c].g /\ Now[c].b = Before[c].b
      /\ Now[c].a = Before[c].a
      /\ Outside(c) => Now[c] = Before[c]

C18_Witness ==
  /\ AfterDrop /\ LastOp.strength # 0
  /\ \E c \in GridCells : Outside(c) /\ Before[c].r # 0
  /\ \E c \in GridCells : ~Outside(c) /\ Now[c].r # Before[c].r
  /\ \E c \in GridCells : ~Outside(c) /\ Now[c].b # 0

\* C19: addDrop with strength 0 and radius > 0 leaves the content
\* unchanged: the image current after the call equals, cell by cell and
\* channel by channel, the image current before it.
C19_ZeroStrengthDropIsNoOp ==
  (AfterDrop /\ LastOp.strength = 0) => Now = Before

C19_Witness ==
  /\ AfterDrop /\ LastOp.strength = 0
  /\ \E c \in GridCells :
       /\ DropFalloff(LastOp.a, LastOp.radius, Uv(c)) > 0
       /\ Before[c].r # 0 /\ Before[c].g # 0

\* C20: on a heightfield whose height is zero in every cell, updateNormals
\* stores 0 in both packed normal components (B and A) of every cell, the
\* edge cells with their clamped neighbours included, and copies height and
\* velocity.
AfterNormals == Len(Current) >= 1 /\ LastOp.op = "updateNormals"
Flat(f) == \A c \in GridCells : f[c].r = 0

C20_FlatNormalsUp ==
  (AfterNormals /\ Flat(Before)) =>
    \A c \in GridCells :
      /\ Now[c].b = 0 /\ Now[c].a = 0
      /\ Now[c].r = Before[c].r /\ Now[c].g = Before[c].g

C20_Witness ==
  /\ AfterNormals /\ Flat(Before)
  /\ \E c \in GridCells : Before[c].b # 0 \/ Before[c].a # 0

\* C21: from cleared targets, addDrop at (0.5, 0.5) with strength 0.02 and
\* then one step leave every cell nearest the centre strictly lower than
\* the injection left it.
Injection == ws.img[ws.read][1]
CentreCells ==
  {c \in GridCells :
     \A d \in GridCells :
       Dist2(<<500, 500>>, Uv(c)) <= Dist2(<<500, 500>>, Uv(d))}
ClaimedDrop ==
  /\ Len(Current) >= 1
  /\ Injection.a = <<500, 500>>
  /\ Injection.strength = 2000

C21_CentreFallsAfterStep ==
  (ws.calls = 2 /\ ClaimedDrop) =>
    \A c \in CentreCells : Now[c].r < Before[c].r

C21_Witness ==
  /\ ws.calls = 2
  /\ ClaimedDrop
  /\ LastOp.op = "step"
  /\ \A c \in CentreCells : Before[c].r > 0 /\ Now[c].r < Before[c].r

\* the sum of the height channel over the grid
RECURSIVE SumOver(_, _)
SumOver(f, cells) ==
  IF cells = {} THEN 0
  ELSE LET c == CHOOSE x \in cells : TRUE
       IN f[c].r + SumOver(f, cells \ {c})
TotalHeight(f) == SumOver(f, GridCells)

\* C22: after a single injection, no step call raises the sum of the
\* height channel over the grid.
PropagateStep == ws.calls >= 1 /\ ws'.calls = ws.calls + 1

C22_TotalHeightDecreases ==
  [][PropagateStep => TotalHeight(Now') <= TotalHeight(Now)]_vars

\* C23: after the injection of strength 0.02, the largest magnitude of the
\* height after step t + Window is strictly below the one after step t,
\* for every t.
ClaimedStrength == Len(Current) >= 1 /\ Injection.strength = 2000

C23_PeakFallsOverWindow ==
  ClaimedStrength =>
    \A t \in 0..(MaxSteps - Window) :
      Len(peaks) >= t + Window + 1 => peaks[t + Window + 1] < peaks[t + 1]

\* C25: the generator writes no Infinity and no NaN.
C25_CausticsFinite ==
  caustics # Null =>
    \A tri \in Triangles : caustics.raw[tri] \notin {NaN, Inf}

\* C24: on a surface whose height and packed normal are zero in every texel
\* and under a light that is not parallel to the water plane, every triangle
\* the generator rasterises writes the intensity 0.2 (area ratio 1).
FlatSurface(f) == \A c \in GridCells : f[c].r = 0 /\ f[c].b = 0 /\ f[c].a = 0
Generated == caustics # Null

C24_FlatCausticsUniform ==
  (Generated /\ FlatSurface(Now) /\ caustics.u_lightDir[2] # 0) =>
    \A tri \in Triangles : caustics.raw[tri] \in {200, NotCovered}

C24_Witness ==
  /\ Generated
  /\ FlatSurface(Now)
  /\ caustics.u_lightDir[2] # 0
  /\ caustics.u_lightDir[1] # 0
  /\ \E tri \in Triangles : caustics.raw[tri] = 200

\* C28: on a flat surface, a point P of the pool floor that the generator's
\* mesh reaches samples the texel the generator wrote the light arriving at
\* P into.
OnTarget(s) == s[1] > -1000 /\ s[1] < 1000 /\ s[2] > -1000 /\ s[2] < 1000

C28_LookupMatchesGenerator ==
  (Generated /\ FlatSurface(Now)) =>
    \A v \in Vertices :
      LET P == caustics.gl_Position[v].p
      IN OnTarget(<<P[1], P[3]>>) =>
           TexelAt(causticsUv(<<P[1], -poolHeight, P[3]>>, env.sunPosition))
             = TexelAt(TargetUv(<<P[1], P[3]>>))

\* C26: within every frame the passes respect the dependency chain: the
\* drops and the sphere stamp come before the propagation step, the normals
\* are recomputed after it, and the renders (caustics, reflection, final
\* composite) come after the normals with no height-changing pass in
\* between, so while the frame renders the current image is the frame's
\* passes applied in that order, ending with the step and then the normals.
HeightChanging == {"addDrop", "moveSphere", "step"}
Renders == {"caustics", "reflection", "composite"}
Rendering ==
  pc \in {"caustics", "reflSetup", "reflRender", "reflRestore", "composite"}
FrameOps == SelectSeq(frameLog, LAMBDA n : n \in SimulatorOps)
Comes(first, later) ==
  \A i, j \in 1..Len(frameLog) :
    (frameLog[i] \in first /\ frameLog[j] \in later) => i < j

C26_DependencyOrder ==
  /\ Comes({"addDrop", "moveSphere"}, {"step"})
  /\ Comes({"step"}, {"updateNormals"})
  /\ Comes(HeightChanging \cup {"updateNormals"}, Renders)
  /\ Rendering =>
       /\ Len(Current) >= Len(FrameOps)
       /\ [i \in 1..Len(FrameOps) |->
            Current[Len(Current) - Len(FrameOps) + i].op] = FrameOps
       /\ LastOp.op = "updateNormals" /\ PrevOp.op = "step"

C26_Witness ==
  /\ pc = "composite"
  /\ frameLog = <<"addDrop", "addDrop", "moveSphere", "step", "updateNormals",
                  "caustics", "reflection">>
  /\ Len(Current) > Len(FrameOps)

\* C27: the reflection render draws with the water mesh hidden, the pool
\* material front-facing, the water-surface clipping plane active and the
\* reflection target bound; after the pass the visibility, the pool side
\* (back), the clipping planes (none) and the render target (screen) are
\* restored, so every final composite draws with the water visible, the
\* pool interior showing and nothing clipped, and between frames the scene
\* is in the restored state.
Restored ==
  [waterVisible |-> TRUE, poolSide |-> "back", clip |-> 0, target |-> "screen"]
DrawState ==
  [waterVisible |-> draw.waterVisible, poolSide |-> draw.poolSide,
   clip |-> draw.clip, target |-> draw.target]

C27_ReflectionStateRestored ==
  /\ draw.pass = "reflection" =>
       DrawState = [waterVisible |-> FALSE, poolSide |-> "front", clip |-> 1,
                    target |-> "reflection"]
  /\ draw.pass = "composite" => DrawState = Restored
  /\ pc \notin {"reflRender", "reflRestore"} => scene = Restored

C27_Witness ==
  /\ pc = "idle" /\ frames = MaxFrames
  /\ draw.pass = "composite" /\ DrawState = Restored
  /\ "reflection" \in {frameLog[i] : i \in 1..Len(frameLog)}

\* C29: whatever pointer events arrive, a drag ray that misses the drag
\* plane included, the sphere's centre stays inside the pool: |x| and |z|
\* at most poolSize / 2 - sphereRadius, and y between
\* -poolHeight + sphereRadius and 0.5; the position a frame stamps from or
\* to is inside these bounds as well.
InsidePool(p) ==
  LET limit == poolSize \div 2 - sphereRadius
  IN /\ -limit <= p[1] /\ p[1] <= limit
     /\ -limit <= p[3] /\ p[3] <= limit
     /\ -poolHeight + sphereRadius <= p[2] /\ p[2] <= DragYMax

C29_SphereStaysInsidePool == InsidePool(spherePos) /\ InsidePool(oldSpherePos)

\* a drag ray that missed the plane, after a drag that was clamped on every
\* axis and has been stamped by a frame
C29_Witness ==
  /\ ev.type = "drag" /\ ~ev.hit
  /\ spherePos = <<0, 0, 0>>
  /\ oldSpherePos \in {<<750, 500, -750>>, <<-750, -750, 750>>}

\* C30: in every state the orbit controls are enabled exactly when the
\* sphere is not being dragged; while the sphere is dragged (from the
\* pointer-down that hit it to the next pointer-up) no pointer-move injects
\* a disturbance; and a pointer-up ends the drag and clears the trail start,
\* which only a pointer-move that injects nothing can set again, so the
\* first pointer-move after a pointer-up injects nothing.
Handled(types) == events' = events + 1 /\ ev'.type \in types
PointerStep ==
  /\ (Handled({"down"}) /\ ev'.hitSphere) => isDraggingSphere'
  /\ isDraggingSphere' # isDraggingSphere => Handled({"down", "up"})
  /\ Handled({"up"}) =>
       ~isDraggingSphere' /\ lastWaterInteractionPoint' = Null
  /\ (Handled({"move", "drag"}) /\ isDraggingSphere) => ws' = ws
  /\ (Handled({"move", "drag"}) /\ lastWaterInteractionPoint = Null) =>
       ws' = ws
  /\ (lastWaterInteractionPoint = Null /\ lastWaterInteractionPoint' # Null) =>
       Handled({"move"})

C30_ControlsAndTrailFollowDrag ==
  /\ [](controlsEnabled <=> ~isDraggingSphere)
  /\ [][PointerStep]_vars

\* the sphere has been dragged and released: down on the sphere, a move
\* that dragged it and injected nothing, then up
C30_Witness ==
  /\ ev.type = "up" /\ events = 3 /\ frames = 0
  /\ spherePos # InitSpherePos
  /\ ws.calls = 0
  /\ controlsEnabled /\ ~isDraggingSphere
  /\ lastWaterInteractionPoint = Null

====
